---- MODULE Spec2Model ----
(***************************************************************************)
(* The in-memory todo store of src/main.go (inMemTodoService) and the     *)
(* process-wide identifier counter latestTodoId.                          *)
(*                                                                         *)
(* A todo is a heap object reached through a pointer; s.todos is a slice  *)
(* of pointers.  objs is the heap (address = index), todos the slice of   *)
(* addresses.  createTodo is split at its accesses to shared memory:      *)
(* the atomic add, the clock read, the load of s.todos and the store of   *)
(* the appended slice (line 108 is an unsynchronised read-modify-write).  *)
(* The scans of the other operations are taken as single steps.           *)
(***************************************************************************)
EXTENDS Integers, Sequences, FiniteSets, TLC

\* ---------------------------------------------------------------- bounds
MaxTodos == 2      \* creates that pass validation
MaxSeqTodos == 3   \* the same, where one caller runs at a time and texts and times are fixed
MaxWorkers == 2    \* createTodo calls in flight at once
MaxTextLen == 1    \* length of a text handed to create / update
MaxTime == 2       \* readings of the clock
MaxIds == 1        \* length of the id list handed to deleteTodos
MaxHttpTodos == 1  \* creates that pass validation, where whole requests are followed
MaxHttpWorkers == 1 \* requests waiting between two store calls at once

Workers == 1..MaxWorkers
Chars == {" ", "a"}
Ids == 1..(MaxSeqTodos + 1)

RECURSIVE SeqsUpTo(_, _)
SeqsUpTo(S, n) ==
    IF n = 0 THEN {<<>>}
    ELSE LET shorter == SeqsUpTo(S, n - 1)
         IN shorter \cup {Append(s, c) : s \in {t \in shorter : Len(t) = n - 1}, c \in S}

Texts == SeqsUpTo(Chars, MaxTextLen)
\* the text of the creates where the text plays no part, and an edited text
PlainText == <<"a">>
EditedText == <<"b">>
IdLists == SeqsUpTo(Ids, MaxIds)

\* a Go pointer that may be nil: <<>> is nil, <<v>> points at v
OptBool == {<<>>, <<TRUE>>, <<FALSE>>}
OptText == {<<>>} \cup {<<t>> : t \in Texts}

\* time.Time{} (the zero time); the clock starts after it
ZeroTime == 0

VARIABLES
    latestTodoId,  \* var latestTodoId uint64
    objs,          \* heap of todo structs, address = index
    todos,         \* inMemTodoService.todos: slice of addresses
    now,           \* the clock read by time.Now()
    pc,            \* per worker: position inside createTodo
    cur,           \* per worker: address of the todo being created
    hdr,           \* per worker: the value of s.todos loaded by append
    ret,           \* what the call that returned in the last step returned
    hnd,           \* per worker: the request handler waiting between two store calls
    resp           \* the response the handler that finished in the last step wrote

vars == <<latestTodoId, objs, todos, now, pc, cur, hdr, ret, hnd, resp>>

\* op: the call, err: it returned an error, val: the pointers it returned
NoRet == [op |-> "none", err |-> FALSE, val |-> <<>>]

\* m: the method of the waiting handler, todo: the pointer updateTodo gave it
NoHandler == [m |-> "none", todo |-> 0]
\* h: the handler, template: the template rendered ("" = none), item and count:
\* the Todo(s) and the FilteredTodosNumber handed to the template
NoResp == [h |-> "none", status |-> 0, template |-> "", count |-> 0, item |-> <<>>]
\* no handler moves: the store is called directly
NoHttp == UNCHANGED <<hnd, resp>>

\* ------------------------------------------------------------ strings
IsSpace(c) == c = " "

RECURSIVE TrimLeft(_)
TrimLeft(s) ==
    IF s = <<>> THEN s
    ELSE IF IsSpace(Head(s)) THEN TrimLeft(Tail(s)) ELSE s

RECURSIVE TrimRight(_)
TrimRight(s) ==
    IF s = <<>> THEN s
    ELSE IF IsSpace(s[Len(s)]) THEN TrimRight(SubSeq(s, 1, Len(s) - 1)) ELSE s

\* strings.TrimSpace
TrimSpace(s) == TrimRight(TrimLeft(s))

\* ------------------------------------------------------------ scans
\* for i := range s.todos { if s.todos[i].Id == id { return i } }; 0 = no match
RECURSIVE scanForId(_, _)
scanForId(i, id) ==
    IF i > Len(todos) THEN 0
    ELSE IF objs[todos[i]].Id = id THEN i
    ELSE scanForId(i + 1, id)

\* findLoop without the skip of deleted records
RECURSIVE findLoopKeepsDeleted(_, _, _)
findLoopKeepsDeleted(i, filter, acc) ==
    IF i > Len(todos) THEN acc
    ELSE LET t == objs[todos[i]]
         IN IF filter # <<>>
            THEN IF t.Done = filter[1]
                 THEN findLoopKeepsDeleted(i + 1, filter, Append(acc, todos[i]))
                 ELSE findLoopKeepsDeleted(i + 1, filter, acc)
            ELSE findLoopKeepsDeleted(i + 1, filter, Append(acc, todos[i]))

\* findLoop putting each match in front of the ones found so far
RECURSIVE findLoopPrepends(_, _, _)
findLoopPrepends(i, filter, acc) ==
    IF i > Len(todos) THEN acc
    ELSE LET t == objs[todos[i]]
         IN IF t.Deleted THEN findLoopPrepends(i + 1, filter, acc)
            ELSE IF filter # <<>>
                 THEN IF t.Done = filter[1]
                      THEN findLoopPrepends(i + 1, filter, <<todos[i]>> \o acc)
                      ELSE findLoopPrepends(i + 1, filter, acc)
                 ELSE findLoopPrepends(i + 1, filter, <<todos[i]>> \o acc)

\* the loop of findTodos from index i on, acc is the slice built so far
RECURSIVE findLoop(_, _, _)
findLoop(i, filter, acc) ==
    IF i > Len(todos) THEN acc
    ELSE LET t == objs[todos[i]]
         IN IF t.Deleted THEN findLoop(i + 1, filter, acc)
            ELSE IF filter # <<>>
                 THEN IF t.Done = filter[1]
                      THEN findLoop(i + 1, filter, Append(acc, todos[i]))
                      ELSE findLoop(i + 1, filter, acc)
                 ELSE findLoop(i + 1, filter, Append(acc, todos[i]))

findTodosResult(filter) == findLoop(1, filter, <<>>)

Init ==
    /\ latestTodoId = 0
    /\ objs = <<>>
    /\ todos = <<>>
    /\ now = 1
    /\ pc = [w \in Workers |-> "idle"]
    /\ cur = [w \in Workers |-> 0]
    /\ hdr = [w \in Workers |-> <<>>]
    /\ ret = NoRet
    /\ hnd = [w \in Workers |-> NoHandler]
    /\ resp = NoResp

\* the clock advances
Tick ==
    /\ now < MaxTime
    /\ now' = now + 1
    /\ ret' = NoRet
    /\ UNCHANGED <<latestTodoId, objs, todos, pc, cur, hdr>>

\* createTodoBegin taking the identifier from the length of the collection
\* instead of the counter's new value
createTodoBeginLenId(w, text) ==
    /\ pc[w] = "idle"
    /\ LET trimmed == TrimSpace(text)
       IN IF trimmed = <<>>
          THEN /\ ret' = [NoRet EXCEPT !.op = "createTodo", !.err = TRUE]
               /\ UNCHANGED <<latestTodoId, objs, todos, now, pc, cur, hdr>>
          ELSE /\ latestTodoId' = latestTodoId + 1
               /\ objs' = Append(objs, [Id |-> Len(todos) + 1, Text |-> trimmed,
                                        CreatedAt |-> ZeroTime,
                                        Done |-> FALSE, DoneAt |-> ZeroTime,
                                        Deleted |-> FALSE, DeletedAt |-> ZeroTime])
               /\ cur' = [cur EXCEPT ![w] = Len(objs) + 1]
               /\ pc' = [pc EXCEPT ![w] = "stamp"]
               /\ ret' = NoRet
               /\ UNCHANGED <<todos, now, hdr>>

\* createTodoBegin validating the text as handed in, trimming it afterwards
createTodoBeginNoTrim(w, text) ==
    /\ pc[w] = "idle"
    /\ IF text = <<>>
       THEN /\ ret' = [NoRet EXCEPT !.op = "createTodo", !.err = TRUE]
            /\ UNCHANGED <<latestTodoId, objs, todos, now, pc, cur, hdr>>
       ELSE /\ latestTodoId' = latestTodoId + 1
            /\ objs' = Append(objs, [Id |-> latestTodoId + 1, Text |-> TrimSpace(text),
                                     CreatedAt |-> ZeroTime,
                                     Done |-> FALSE, DoneAt |-> ZeroTime,
                                     Deleted |-> FALSE, DeletedAt |-> ZeroTime])
            /\ cur' = [cur EXCEPT ![w] = Len(objs) + 1]
            /\ pc' = [pc EXCEPT ![w] = "stamp"]
            /\ ret' = NoRet
            /\ UNCHANGED <<todos, now, hdr>>

\* createTodo, lines 98-102: trim, validate, take the next identifier
createTodoBegin(w, text) ==
    /\ pc[w] = "idle"
    /\ LET trimmed == TrimSpace(text)
       IN IF trimmed = <<>>
          THEN /\ ret' = [NoRet EXCEPT !.op = "createTodo", !.err = TRUE]
               /\ UNCHANGED <<latestTodoId, objs, todos, now, pc, cur, hdr>>
          ELSE /\ latestTodoId' = latestTodoId + 1
               /\ objs' = Append(objs, [Id |-> latestTodoId + 1, Text |-> trimmed,
                                        CreatedAt |-> ZeroTime,
                                        Done |-> FALSE, DoneAt |-> ZeroTime,
                                        Deleted |-> FALSE, DeletedAt |-> ZeroTime])
               /\ cur' = [cur EXCEPT ![w] = Len(objs) + 1]
               /\ pc' = [pc EXCEPT ![w] = "stamp"]
               /\ ret' = NoRet
               /\ UNCHANGED <<todos, now, hdr>>

\* createTodo, lines 103-107: reset the flags, stamp CreatedAt
createTodoStamp(w) ==
    /\ pc[w] = "stamp"
    /\ objs' = [objs EXCEPT ![cur[w]] =
                  [@ EXCEPT !.Done = FALSE, !.CreatedAt = now, !.DoneAt = ZeroTime,
                            !.Deleted = FALSE, !.DeletedAt = ZeroTime]]
    /\ pc' = [pc EXCEPT ![w] = "load"]
    /\ ret' = NoRet
    /\ UNCHANGED <<latestTodoId, todos, now, cur, hdr>>

\* createTodo, line 108: append loads s.todos
createTodoLoad(w) ==
    /\ pc[w] = "load"
    /\ hdr' = [hdr EXCEPT ![w] = todos]
    /\ pc' = [pc EXCEPT ![w] = "store"]
    /\ ret' = NoRet
    /\ UNCHANGED <<latestTodoId, objs, todos, now, cur>>

\* createTodo, lines 108-109: the appended slice is stored, nil is returned
createTodoStore(w) ==
    /\ pc[w] = "store"
    /\ todos' = Append(hdr[w], cur[w])
    /\ ret' = [NoRet EXCEPT !.op = "createTodo", !.val = <<cur[w]>>]
    /\ pc' = [pc EXCEPT ![w] = "idle"]
    /\ cur' = [cur EXCEPT ![w] = 0]
    /\ hdr' = [hdr EXCEPT ![w] = <<>>]
    /\ UNCHANGED <<latestTodoId, objs, now>>

\* getTodoById, lines 71-78
getTodoById(id) ==
    /\ LET i == scanForId(1, id)
       IN ret' = IF i = 0
                 THEN [NoRet EXCEPT !.op = "getTodoById", !.err = TRUE]
                 ELSE [NoRet EXCEPT !.op = "getTodoById", !.val = <<todos[i]>>]
    /\ UNCHANGED <<latestTodoId, objs, todos, now, pc, cur, hdr>>

\* findTodos, lines 80-95
findTodos(filter) ==
    /\ ret' = [NoRet EXCEPT !.op = "findTodos", !.val = findTodosResult(filter)]
    /\ UNCHANGED <<latestTodoId, objs, todos, now, pc, cur, hdr>>

\* updateTodo resetting DoneAt when done is set to false
updateTodoClearsDoneAt(id, text, done) ==
    /\ LET i == scanForId(1, id)
       IN IF i = 0
          THEN /\ ret' = [NoRet EXCEPT !.op = "updateTodo", !.err = TRUE]
               /\ objs' = objs
          ELSE LET a == todos[i]
                   t0 == objs[a]
                   t1 == IF text # <<>> THEN [t0 EXCEPT !.Text = text[1]] ELSE t0
                   t2 == IF done # <<>> THEN [t1 EXCEPT !.Done = done[1]] ELSE t1
                   t3 == IF done # <<>>
                         THEN [t2 EXCEPT !.DoneAt = IF done[1] THEN now ELSE ZeroTime]
                         ELSE t2
               IN /\ objs' = [objs EXCEPT ![a] = t3]
                  /\ ret' = [NoRet EXCEPT !.op = "updateTodo", !.val = <<a>>]
    /\ UNCHANGED <<latestTodoId, todos, now, pc, cur, hdr>>

\* updateTodo, lines 112-128
updateTodo(id, text, done) ==
    /\ LET i == scanForId(1, id)
       IN IF i = 0
          THEN /\ ret' = [NoRet EXCEPT !.op = "updateTodo", !.err = TRUE]
               /\ objs' = objs
          ELSE LET a == todos[i]
                   t0 == objs[a]
                   t1 == IF text # <<>> THEN [t0 EXCEPT !.Text = text[1]] ELSE t0
                   t2 == IF done # <<>> THEN [t1 EXCEPT !.Done = done[1]] ELSE t1
                   t3 == IF done # <<>> /\ done[1] THEN [t2 EXCEPT !.DoneAt = now] ELSE t2
               IN /\ objs' = [objs EXCEPT ![a] = t3]
                  /\ ret' = [NoRet EXCEPT !.op = "updateTodo", !.val = <<a>>]
    /\ UNCHANGED <<latestTodoId, todos, now, pc, cur, hdr>>

\* deleteTodo, lines 130-139
deleteTodo(id) ==
    /\ LET i == scanForId(1, id)
       IN IF i = 0
          THEN /\ ret' = [NoRet EXCEPT !.op = "deleteTodo", !.err = TRUE]
               /\ objs' = objs
          ELSE /\ objs' = [objs EXCEPT ![todos[i]] =
                             [@ EXCEPT !.Deleted = TRUE, !.DeletedAt = now]]
               /\ ret' = [NoRet EXCEPT !.op = "deleteTodo"]
    /\ UNCHANGED <<latestTodoId, todos, now, pc, cur, hdr>>

\* the nested loops of deleteTodos, lines 143-151, from todo i and id j on:
\* o is the heap so far, deleted the counter so far
RECURSIVE deleteTodosLoop(_, _, _, _, _)
deleteTodosLoop(i, j, ids, o, deleted) ==
    IF i > Len(todos) THEN [objs |-> o, deleted |-> deleted]
    ELSE IF j > Len(ids) THEN deleteTodosLoop(i + 1, 1, ids, o, deleted)
    ELSE LET a == todos[i]
             o1 == IF o[a].Id = ids[j]
                   THEN [o EXCEPT ![a] = [@ EXCEPT !.Deleted = TRUE, !.DeletedAt = now]]
                   ELSE o
         IN deleteTodosLoop(i, j + 1, ids, o1, deleted + 1)

\* deleteTodos, lines 141-156
deleteTodos(ids) ==
    /\ LET r == deleteTodosLoop(1, 1, ids, objs, 0)
       IN /\ objs' = r.objs
          /\ ret' = [NoRet EXCEPT !.op = "deleteTodos", !.err = (r.deleted # Len(ids))]
    /\ UNCHANGED <<latestTodoId, todos, now, pc, cur, hdr>>

\* ----------------------------------------------------- request handlers
\* Rendering is taken to succeed: the templates are parsed at start-up and
\* renderPage writes the buffer out only after the template has executed.

\* the values of the "filter" form parameter: the three chips and another one
FilterParams == {"", "done", "notdone", "all"}
\* the "done" form value of PUT .../_done/
DoneForms == {"", "done"}
\* the path after the id in PUT /todos/{id}/...
PutSuffixes == {"", "_done/", "_text/"}
\* the ids of the paths: those create can have assigned and one more
PathIds == 1..(MaxHttpTodos + 1)
\* the "new-todo" form values: a blank one and a text to trim
PostForms == {<<" ">>, <<" ", "a">>}
HttpWorkers == 1..MaxHttpWorkers
\* the "filter" parameter of the requests for the whole list
IndexFilters == {"", "notdone"}

\* applyFilter pointing filter.done at the local before the switch
applyFilterKeepsPointer(v) ==
    IF v # ""
    THEN CASE v = "done" -> <<TRUE>>
           [] v = "notdone" -> <<FALSE>>
           [] OTHER -> <<FALSE>>
    ELSE <<>>

\* applyFilter, lines 288-310: the todoFilter it leaves (the chips are view data)
applyFilter(v) ==
    IF v # ""
    THEN CASE v = "done" -> <<TRUE>>
           [] v = "notdone" -> <<FALSE>>
           [] OTHER -> <<>>
    ELSE <<>>

\* isTodoInList, lines 398-405: pointer equality with an item of the list
isTodoInList(todo, list) == \E k \in 1..Len(list) : list[k] = todo

\* http.Error(w, http.StatusText(500), 500)
Error500(h) == [NoResp EXCEPT !.h = h, !.status = 500]
\* http.NotFound
NotFound(h) == [NoResp EXCEPT !.h = h, !.status = 404]
\* handlePage: the template rendered with its Todo(s) and FilteredTodosNumber
Page(h, name, item, count) ==
    [h |-> h, status |-> 200, template |-> name, count |-> count, item |-> item]

\* the worker runs no handler
Free(w) == pc[w] = "idle" /\ hnd[w] = NoHandler

\* todoHandler / todoEditHandler, lines 408-413 and 503-508: the digits of the
\* path do not fit a uint64
extractTodoIdFails ==
    /\ resp' = Error500("extractTodoId")
    /\ ret' = NoRet
    /\ UNCHANGED <<latestTodoId, objs, todos, now, pc, cur, hdr, hnd>>

\* todoHandler, GET, lines 414-426
todoHandlerGet(id) ==
    /\ getTodoById(id)
    /\ resp' = IF ret'.err THEN Error500("GET")
               ELSE Page("GET", "todo-list-item.html", ret'.val, 0)
    /\ UNCHANGED hnd

\* todoHandler, DELETE, lines 427-432 and the branch on HX-Request
todoHandlerDeleteBegin(w, id, hx) ==
    /\ Free(w)
    /\ deleteTodo(id)
    /\ IF ret'.err
       THEN resp' = Error500("DELETE") /\ UNCHANGED hnd
       ELSE IF hx
            THEN /\ hnd' = [hnd EXCEPT ![w] = [m |-> "DELETE", todo |-> 0]]
                 /\ resp' = NoResp
            ELSE /\ resp' = [NoResp EXCEPT !.h = "DELETE", !.status = 200]
                 /\ UNCHANGED hnd

\* todoHandler, DELETE, lines 434-446: the count after the delete
todoHandlerDeleteFinish(w, v) ==
    /\ hnd[w].m = "DELETE"
    /\ hnd' = [hnd EXCEPT ![w] = NoHandler]
    /\ findTodos(applyFilter(v))
    /\ resp' = IF ret'.err THEN Error500("DELETE")
               ELSE Page("DELETE", "todo-list-number.html", <<>>, Len(ret'.val))

\* todoHandler, PUT, lines 449-456: the todoUpdate built from the path and the form
putUpdate(suffix, doneForm, textForm) ==
    IF suffix = "_done/" THEN [text |-> <<>>, done |-> <<doneForm = "done">>]
    ELSE IF suffix = "_text/" THEN [text |-> <<textForm>>, done |-> <<>>]
    ELSE [text |-> <<>>, done |-> <<>>]

\* todoHandler, PUT, lines 448-462: the update
todoHandlerPutBegin(w, id, suffix, doneForm, textForm) ==
    /\ Free(w)
    /\ LET update == putUpdate(suffix, doneForm, textForm)
       IN updateTodo(id, update.text, update.done)
    /\ IF ret'.err
       THEN resp' = Error500("PUT") /\ UNCHANGED hnd
       ELSE /\ hnd' = [hnd EXCEPT ![w] = [m |-> "PUT", todo |-> ret'.val[1]]]
            /\ resp' = NoResp

\* todoHandler, PUT, lines 463-485: the filtered list, then the item or the count
todoHandlerPutFinish(w, v) ==
    /\ hnd[w].m = "PUT"
    /\ hnd' = [hnd EXCEPT ![w] = NoHandler]
    /\ findTodos(applyFilter(v))
    /\ resp' = IF ret'.err THEN Error500("PUT")
               ELSE IF isTodoInList(hnd[w].todo, ret'.val)
               THEN Page("PUT", "todo-list-item.html", <<hnd[w].todo>>, Len(ret'.val))
               ELSE Page("PUT", "todo-list-number.html", <<>>, Len(ret'.val))

\* todoHandler, lines 486-489: any other method
todoHandlerOtherMethod ==
    /\ resp' = [NoResp EXCEPT !.h = "other", !.status = 405]
    /\ ret' = NoRet
    /\ UNCHANGED <<latestTodoId, objs, todos, now, pc, cur, hdr, hnd>>

\* todoEditHandler, lines 509-514
todoEditHandler(id) ==
    /\ getTodoById(id)
    /\ resp' = IF ret'.err THEN NotFound("edit")
               ELSE Page("edit", "todo-edit-item.html", ret'.val, 0)
    /\ UNCHANGED hnd

\* todosIndexHandler, lines 366-395: the list page or, for htmx, the list alone
todosIndexList(h, hx, v) ==
    /\ findTodos(applyFilter(v))
    /\ resp' = IF ret'.err THEN Error500(h)
               ELSE Page(h, IF hx THEN "todo-list.html" ELSE "todos_index.html",
                         ret'.val, Len(ret'.val))
    /\ UNCHANGED hnd

\* todosIndexHandler, POST, lines 340-353: a blank field falls through to the
\* list, any other is handed to createTodo
todosIndexPostBegin(w, form, hx, v) ==
    /\ Free(w)
    /\ LET newTodo == TrimSpace(form)
       IN IF newTodo = <<>>
          THEN todosIndexList("POST", hx, v)
          ELSE /\ createTodoBegin(w, newTodo)
               /\ resp' = IF ret'.err THEN Error500("POST") ELSE NoResp
               /\ UNCHANGED hnd

\* todosIndexHandler, POST, lines 348-362: createTodo returns, the form or a redirect
todosIndexPostFinish(w, hx) ==
    /\ createTodoStore(w)
    /\ resp' = IF ret'.err THEN Error500("POST")
               ELSE IF hx THEN Page("POST", "new-todo-form.html", <<>>, 0)
               ELSE [NoResp EXCEPT !.h = "POST", !.status = 302]
    /\ UNCHANGED hnd

\* ------------------------------------------------------ specifications
\* Request handlers run concurrently: createTodo calls interleave with each
\* other and with the other store calls.
Next ==
    \/ \E w \in Workers : latestTodoId < MaxTodos /\ createTodoBegin(w, PlainText) /\ NoHttp
    \/ \E w \in Workers : createTodoStamp(w) /\ NoHttp
    \/ \E w \in Workers : createTodoLoad(w) /\ NoHttp
    \/ \E w \in Workers : createTodoStore(w) /\ NoHttp
    \/ \E id \in Ids : getTodoById(id) /\ NoHttp
    \/ \E id \in Ids, done \in OptBool : updateTodo(id, <<>>, done) /\ NoHttp
    \/ \E id \in Ids : deleteTodo(id) /\ NoHttp
    \/ \E ids \in IdLists : deleteTodos(ids) /\ NoHttp

Spec == Init /\ [][Next]_vars

\* One caller at a time: the flags and the reads.
NextSeq ==
    \/ latestTodoId < MaxSeqTodos /\ createTodoBegin(1, PlainText) /\ NoHttp
    \/ createTodoStamp(1) /\ NoHttp
    \/ createTodoLoad(1) /\ NoHttp
    \/ createTodoStore(1) /\ NoHttp
    \/ \E id \in Ids : getTodoById(id) /\ NoHttp
    \/ \E filter \in OptBool : findTodos(filter) /\ NoHttp
    \/ \E id \in Ids, done \in OptBool : updateTodo(id, <<>>, done) /\ NoHttp
    \/ \E id \in Ids : deleteTodo(id) /\ NoHttp
    \/ \E ids \in IdLists : deleteTodos(ids) /\ NoHttp

SpecSeq == Init /\ [][NextSeq]_vars

\* One caller at a time, texts of every shape handed to create and update.
NextText ==
    \/ \E text \in Texts :
          /\ latestTodoId < MaxTodos \/ \A k \in 1..Len(text) : IsSpace(text[k])
          /\ createTodoBegin(1, text) /\ NoHttp
    \/ createTodoStamp(1) /\ NoHttp
    \/ createTodoLoad(1) /\ NoHttp
    \/ createTodoStore(1) /\ NoHttp
    \/ \E id \in Ids, text \in OptText : updateTodo(id, text, <<>>) /\ NoHttp
    \/ \E id \in Ids : deleteTodo(id) /\ NoHttp
    \/ \E ids \in IdLists : deleteTodos(ids) /\ NoHttp

SpecText == Init /\ [][NextText]_vars

\* One caller at a time, the clock advancing between the calls.
NextTime ==
    \/ Tick /\ NoHttp
    \/ latestTodoId < MaxTodos /\ createTodoBegin(1, PlainText) /\ NoHttp
    \/ createTodoStamp(1) /\ NoHttp
    \/ createTodoLoad(1) /\ NoHttp
    \/ createTodoStore(1) /\ NoHttp
    \/ \E id \in Ids, text \in {<<>>, <<EditedText>>}, done \in OptBool :
          updateTodo(id, text, done) /\ NoHttp

SpecTime == Init /\ [][NextTime]_vars

\* The requests of server.ServeHTTP, each handler interleaved with the others
\* between its store calls.
NextHttp ==
    \/ extractTodoIdFails
    \/ todoHandlerOtherMethod
    \/ \E id \in PathIds : todoHandlerGet(id)
    \/ \E id \in PathIds : todoEditHandler(id)
    \/ \E w \in HttpWorkers, id \in PathIds, hx \in BOOLEAN :
          todoHandlerDeleteBegin(w, id, hx)
    \/ \E w \in HttpWorkers, v \in FilterParams : todoHandlerDeleteFinish(w, v)
    \/ \E w \in HttpWorkers, id \in PathIds, suffix \in PutSuffixes :
          \E doneForm \in IF suffix = "_done/" THEN DoneForms ELSE {""},
             textForm \in IF suffix = "_text/" THEN {EditedText} ELSE {<<>>} :
             todoHandlerPutBegin(w, id, suffix, doneForm, textForm)
    \/ \E w \in HttpWorkers, v \in FilterParams : todoHandlerPutFinish(w, v)
    \/ \E hx \in BOOLEAN, v \in IndexFilters : todosIndexList("GET", hx, v)
    \/ \E w \in HttpWorkers, form \in PostForms, hx \in BOOLEAN, v \in IndexFilters :
          /\ latestTodoId < MaxHttpTodos \/ \A k \in 1..Len(form) : IsSpace(form[k])
          /\ todosIndexPostBegin(w, form, hx, v)
    \/ \E w \in HttpWorkers : createTodoStamp(w) /\ resp' = NoResp /\ UNCHANGED hnd
    \/ \E w \in HttpWorkers : createTodoLoad(w) /\ resp' = NoResp /\ UNCHANGED hnd
    \/ \E w \in HttpWorkers, hx \in BOOLEAN : todosIndexPostFinish(w, hx)

SpecHttp == Init /\ [][NextHttp]_vars

\* ------------------------------------------------------------- claims
\* the record at position i of the collection
Rec(i) == objs[todos[i]]
InCollection(a) == \E i \in 1..Len(todos) : todos[i] = a
AllIdle == \A w \in Workers : pc[w] = "idle"

IdsUnique ==
    \A i, j \in 1..Len(todos) : i # j => Rec(i).Id # Rec(j).Id
IdsImmutable ==
    \A a \in 1..Len(objs) : objs'[a].Id = objs[a].Id

\* C1: under every interleaving of the store calls, concurrent creates
\* included, no two records of the collection have the same identifier, and
\* no step changes the identifier of a record.
C1_IdsUniqueAndImmutable == [][IdsUnique' /\ IdsImmutable]_vars

\* two records appended out of identifier order by overlapping creates, one of
\* them since deleted
C1_Witness ==
    /\ Len(todos) = 2
    /\ Rec(1).Id > Rec(2).Id
    /\ \E i \in 1..2 : Rec(i).Deleted

\* C2: once every create has finished, the record of every create that
\* returned success is in the collection.
C2_NoCreatedRecordLost ==
    AllIdle => \A a \in 1..Len(objs) : InCollection(a)

\* what a find must return for the filter: the records of the collection that
\* are not deleted and, when the filter is set, whose Done flag equals it
Wanted(i, filter) ==
    /\ ~Rec(i).Deleted
    /\ filter # <<>> => Rec(i).Done = filter[1]

\* C3: find with an unset filter returns no record whose Deleted flag is
\* true, and returns every record of the collection whose Deleted flag is false.
C3_FindSkipsDeletedOnly ==
    [][findTodos(<<>>) =>
         /\ \A k \in 1..Len(ret'.val) : ~objs[ret'.val[k]].Deleted
         /\ \A i \in 1..Len(todos) :
               ~Rec(i).Deleted => \E k \in 1..Len(ret'.val) : ret'.val[k] = todos[i]
      ]_vars

\* three records, the middle one deleted, the first done and the last not:
\* the find returned the first and the last, so its filter was unset
C3_Witness ==
    /\ ret.op = "findTodos"
    /\ Len(todos) = 3
    /\ Rec(2).Deleted /\ ~Rec(1).Deleted /\ ~Rec(3).Deleted
    /\ Rec(1).Done /\ ~Rec(3).Done
    /\ ret.val = <<todos[1], todos[3]>>

\* C4: find with filter.done = d returns exactly the non-deleted records whose
\* Done flag equals d, each once, in insertion order, which is the order of
\* their creation.
C4_FindByDoneExactInOrder ==
    [][\A d \in BOOLEAN :
         findTodos(<<d>>) =>
            LET r == ret'.val
            IN /\ \A k \in 1..Len(r) :
                     \E i \in 1..Len(todos) : todos[i] = r[k] /\ Wanted(i, <<d>>)
               /\ \A i \in 1..Len(todos) :
                     Wanted(i, <<d>>) => \E k \in 1..Len(r) : r[k] = todos[i]
               /\ \A k1, k2 \in 1..Len(r) :
                     k1 < k2 =>
                        /\ r[k1] # r[k2]
                        /\ objs[r[k1]].Id < objs[r[k2]].Id
                        /\ \E i1, i2 \in 1..Len(todos) :
                              i1 < i2 /\ todos[i1] = r[k1] /\ todos[i2] = r[k2]
      ]_vars

\* A, B, C created, B marked done: the find returned [A, C], so its filter was
\* done = false
C4_Witness ==
    /\ ret.op = "findTodos"
    /\ Len(todos) = 3
    /\ \A i \in 1..3 : ~Rec(i).Deleted
    /\ ~Rec(1).Done /\ Rec(2).Done /\ ~Rec(3).Done
    /\ ret.val = <<todos[1], todos[3]>>

\* C5: create with a text that is empty or all whitespace returns an error,
\* appends no record and modifies none.
C5_BlankCreateRejected ==
    [][\A text \in Texts :
         (/\ \A k \in 1..Len(text) : text[k] = " "
          /\ createTodoBegin(1, text))
         => /\ ret'.op = "createTodo" /\ ret'.err
            /\ todos' = todos
            /\ objs' = objs
            /\ latestTodoId' = latestTodoId
      ]_vars

\* a create was refused on a collection that holds a record
C5_Witness ==
    /\ ret.op = "createTodo" /\ ret.err
    /\ Len(todos) >= 1

\* C6: every record of the collection has a non-empty text.
C6_TextNeverEmpty ==
    \A i \in 1..Len(todos) : Rec(i).Text # <<>>

\* C7: deleteMany(ids) returns an error exactly when some requested id
\* matches no record of the collection.
C7_DeleteManyErrorIffUnmatched ==
    [][\A ids \in IdLists :
         deleteTodos(ids) =>
            (ret'.err <=>
               ~ \A j \in 1..Len(ids) : \E i \in 1..Len(todos) : Rec(i).Id = ids[j])
      ]_vars

\* C8: update with done = true sets Done and stamps DoneAt with the current
\* time, which is not earlier than CreatedAt; update with done = false clears
\* Done and leaves DoneAt as it was.
C8_DoneStampedUndoneKept ==
    [][\A id \in Ids, text \in {<<>>, <<EditedText>>} :
         /\ (updateTodo(id, text, <<TRUE>>) /\ ~ret'.err) =>
               LET a == ret'.val[1]
               IN /\ objs[a].Id = id
                  /\ objs'[a].Done
                  /\ objs'[a].DoneAt = now
                  /\ objs'[a].DoneAt >= objs'[a].CreatedAt
         /\ (updateTodo(id, text, <<FALSE>>) /\ ~ret'.err) =>
               LET a == ret'.val[1]
               IN /\ objs[a].Id = id
                  /\ ~objs'[a].Done
                  /\ objs'[a].DoneAt = objs[a].DoneAt
      ]_vars

\* an update left a record not done that still carries the stamp of an
\* earlier completion
C8_Witness ==
    /\ ret.op = "updateTodo" /\ ~ret.err
    /\ LET t == objs[ret.val[1]]
       IN /\ ~t.Done
          /\ t.DoneAt # ZeroTime
          /\ t.DoneAt >= t.CreatedAt
          /\ t.DoneAt < now

\* C9: DoneAt changes only in a step that takes Done from false to true.
C9_DoneAtOnlyOnTransition ==
    [][\A a \in 1..Len(objs) :
         objs'[a].DoneAt # objs[a].DoneAt => (~objs[a].Done /\ objs'[a].Done)
      ]_vars

\* C10: no step removes a record from the collection; after a successful
\* delete(id) the record is in the collection, flagged; getById(id) returns
\* the record with that id, deleted or not, and once no create is in flight
\* it fails only for an id that no create assigned.
C10_SoftDeleteKeepsRecord ==
    [][/\ \A i \in 1..Len(todos) : \E j \in 1..Len(todos') : todos'[j] = todos[i]
       /\ \A id \in Ids :
             (deleteTodo(id) /\ ~ret'.err) =>
                \E j \in 1..Len(todos') :
                   objs'[todos'[j]].Id = id /\ objs'[todos'[j]].Deleted
       /\ \A id \in Ids :
             getTodoById(id) =>
                IF ret'.err
                THEN AllIdle => id > latestTodoId
                ELSE objs[ret'.val[1]].Id = id
      ]_vars

\* C11: a store error in a handler (per-item GET, DELETE, PUT, the edit-mode
\* GET, POST /todos/) ends the request with the generic 500 and no template
\* output.
C11_StoreErrorIs500 ==
    ret.err => (resp.status = 500 /\ resp.template = "" /\ resp.item = <<>>)

====
